---- MODULE Spec2Model ----
(***************************************************************************)
(* Model of shared_sync.c: a parent (Initiator) creates a POSIX shared     *)
(* memory object holding one SharedMessage, forks a Writer child and a     *)
(* Reader child that run 5 iterations each against the shared record, then *)
(* waits for both and removes the object.                                  *)
(*                                                                         *)
(* Every process is a program counter plus its locals; one action is one   *)
(* statement of main().  The three processes interleave freely, which is   *)
(* what independently scheduled processes over a MAP_SHARED mapping do.    *)
(***************************************************************************)
EXTENDS Integers, Sequences, FiniteSets, TLC

VARIABLES
    ipc,            \* Initiator (parent): position in main()
    wpc,            \* Writer (child 1): position in its branch
    rpc,            \* Reader (child 2): position in its branch
    wi,             \* Writer's loop variable i
    ri,             \* Reader's loop variable i
    message_id,     \* SharedMessage.message_id
    text_message,   \* SharedMessage.text_message, as the C string it holds
    ready,          \* SharedMessage.ready
    rid,            \* Reader: message_id argument evaluated for its printf
    wout,           \* lines the Writer printed ("WROTE message ID ...")
    rout,           \* lines the Reader printed ("READ message ID ...")
    linked,         \* the object /my_shared_memory exists in /dev/shm
    mapped,         \* processes that hold a mapping of the object
    status,         \* exit status of the Initiator, -1 while it runs
    polled,         \* per role: the iteration in which it last loaded ready
                    \* and found the value it waits for, 0 if it never did
    flagstores,     \* per role: how many times it has stored to ready
    err             \* what the Initiator's perror named, "" if nothing failed

vars == <<ipc, wpc, rpc, wi, ri, message_id, text_message, ready, rid,
          wout, rout, linked, mapped, status, polled, flagstores, err>>

slot == <<message_id, text_message, ready>>

-----------------------------------------------------------------------------
(* Program constants *)

MAX_MSG_LEN == 256

\* for (int i = 1; i <= 5; i++)
NumIters == 5

\* shared_mem->message_id = 100 + i
IdBase == 100

\* the literal part of the Writer's format string, before %d
FormatLiteral == "Message from Child 1 (writer), iteration "

\* the zeroed text buffer read as a C string
ZeroText == ""

\* What a pre-existing object of the same name may hold: shm_open is called
\* with O_CREAT but without O_EXCL or O_TRUNC, so a left-over object is
\* reused with its contents.
StaleIds   == {0, 77}
StaleTexts == {ZeroText, "stale"}
StaleReady == {0, 7}

-----------------------------------------------------------------------------
(* Pure helpers: what snprintf and the %d conversion do *)

DigitChars == <<"0", "1", "2", "3", "4", "5", "6", "7", "8", "9">>

RECURSIVE IntToStr(_)
IntToStr(n) ==
    IF n < 10 THEN DigitChars[n + 1]
    ELSE IntToStr(n \div 10) \o DigitChars[(n % 10) + 1]

\* snprintf never stores more than size-1 characters before the NUL
Truncate(s, size) ==
    IF Len(s) > size - 1 THEN SubSeq(s, 1, size - 1) ELSE s

\* bytes of s stored over the start of buf, no terminator yet: what lies
\* beyond them in the buffer is still there
Overwrite(buf, s) ==
    IF Len(buf) > Len(s) THEN s \o SubSeq(buf, Len(s) + 1, Len(buf)) ELSE s

\* the complete text the Writer's snprintf produces for iteration i
WriterText(i) == Truncate(FormatLiteral \o IntToStr(i), MAX_MSG_LEN)

\* the id computed from a zero-based iteration number
WriterIdOffByOne(i) == IdBase + i - 1

\* the value the Writer stores into message_id in iteration i
WriterId(i) == IdBase + i

\* the loop test with an off-by-one bound: one iteration too few
LoopCondStrict(i) == i < NumIters

\* loop test of both for-loops
LoopCond(i) == i <= NumIters

\* a wait that returns as soon as the child exists, as with WNOHANG
ChildExitedNoHang(pc) == pc # "none"

\* waitpid(pid, NULL, 0) returns once the child has exited
ChildExited(pc) == pc = "exited"

-----------------------------------------------------------------------------
Init ==
    /\ ipc = "shm_open"
    /\ wpc = "none"
    /\ rpc = "none"
    /\ wi = 0
    /\ ri = 0
    /\ linked \in BOOLEAN
    /\ message_id \in (IF linked THEN StaleIds ELSE {0})
    /\ text_message \in (IF linked THEN StaleTexts ELSE {ZeroText})
    /\ ready \in (IF linked THEN StaleReady ELSE {0})
    /\ rid = 0
    /\ wout = <<>>
    /\ rout = <<>>
    /\ mapped = {}
    /\ status = -1
    /\ polled = [p \in {"W", "R"} |-> 0]
    /\ flagstores = [p \in {"W", "R"} |-> 0]
    /\ err = ""

-----------------------------------------------------------------------------
(* Initiator *)

\* the failure path ending in exit(0) instead of exit(1)
AbortStatusZero(what) ==
    /\ err' = what
    /\ ipc' = "exited"
    /\ status' = 0

\* perror(what); exit(1): nothing is unmapped or unlinked
Abort(what) ==
    /\ err' = what
    /\ ipc' = "exited"
    /\ status' = 1

ShmOpenOk ==
    /\ ipc = "shm_open"
    /\ ipc' = "ftruncate"
    /\ linked' = TRUE
    /\ UNCHANGED <<wpc, rpc, wi, ri, slot, rid, wout, rout, mapped, status,
                   polled, flagstores, err>>

ShmOpenFail ==
    /\ ipc = "shm_open"
    /\ Abort("shm_open")
    /\ UNCHANGED <<wpc, rpc, wi, ri, slot, rid, wout, rout, linked, mapped,
                   polled, flagstores>>

FtruncateOk ==
    /\ ipc = "ftruncate"
    /\ ipc' = "mmap"
    /\ UNCHANGED <<wpc, rpc, wi, ri, slot, rid, wout, rout, linked, mapped,
                   status, polled, flagstores, err>>

FtruncateFail ==
    /\ ipc = "ftruncate"
    /\ Abort("ftruncate")
    /\ UNCHANGED <<wpc, rpc, wi, ri, slot, rid, wout, rout, linked, mapped,
                   polled, flagstores>>

MmapOk ==
    /\ ipc = "mmap"
    /\ ipc' = "init_id"
    /\ mapped' = mapped \cup {"I"}
    /\ UNCHANGED <<wpc, rpc, wi, ri, slot, rid, wout, rout, linked, status,
                   polled, flagstores, err>>

MmapFail ==
    /\ ipc = "mmap"
    /\ Abort("mmap")
    /\ UNCHANGED <<wpc, rpc, wi, ri, slot, rid, wout, rout, linked, mapped,
                   polled, flagstores>>

InitMessageId ==
    /\ ipc = "init_id"
    /\ message_id' = 0
    /\ ipc' = "init_ready"
    /\ UNCHANGED <<wpc, rpc, wi, ri, text_message, ready, rid, wout, rout,
                   linked, mapped, status, polled, flagstores, err>>

InitReady ==
    /\ ipc = "init_ready"
    /\ ready' = 0
    /\ ipc' = "memset"
    /\ UNCHANGED <<wpc, rpc, wi, ri, message_id, text_message, rid, wout,
                   rout, linked, mapped, status, polled, flagstores, err>>

\* the memset left out: the text buffer keeps whatever the object held
MemsetSkipped ==
    /\ ipc = "memset"
    /\ ipc' = "fork1"
    /\ UNCHANGED <<wpc, rpc, wi, ri, slot, rid, wout, rout, linked, mapped,
                   status, polled, flagstores, err>>

Memset ==
    /\ ipc = "memset"
    /\ text_message' = ZeroText
    /\ ipc' = "fork1"
    /\ UNCHANGED <<wpc, rpc, wi, ri, message_id, ready, rid, wout, rout,
                   linked, mapped, status, polled, flagstores, err>>

\* pid1 = fork(): the child inherits the mapping and starts at line 103
Fork1Ok ==
    /\ ipc = "fork1"
    /\ ipc' = "fork2"
    /\ wpc' = "w_start"
    /\ mapped' = mapped \cup {"W"}
    /\ UNCHANGED <<rpc, wi, ri, slot, rid, wout, rout, linked, status,
                   polled, flagstores, err>>

Fork1Fail ==
    /\ ipc = "fork1"
    /\ Abort("fork")
    /\ UNCHANGED <<wpc, rpc, wi, ri, slot, rid, wout, rout, linked, mapped,
                   polled, flagstores>>

\* pid2 = fork(): the child inherits the mapping and starts at line 141
Fork2Ok ==
    /\ ipc = "fork2"
    /\ ipc' = "waitpid1"
    /\ rpc' = "r_start"
    /\ mapped' = mapped \cup {"R"}
    /\ UNCHANGED <<wpc, wi, ri, slot, rid, wout, rout, linked, status,
                   polled, flagstores, err>>

\* a failure path that unmaps and unlinks the region before exit(1)
Fork2FailCleanup ==
    /\ ipc = "fork2"
    /\ Abort("fork")
    /\ mapped' = mapped \ {"I"}
    /\ linked' = FALSE
    /\ UNCHANGED <<wpc, rpc, wi, ri, slot, rid, wout, rout, polled,
                   flagstores>>

Fork2Fail ==
    /\ ipc = "fork2"
    /\ Abort("fork")
    /\ UNCHANGED <<wpc, rpc, wi, ri, slot, rid, wout, rout, linked, mapped,
                   polled, flagstores>>

WaitPid1 ==
    /\ ipc = "waitpid1"
    /\ ChildExited(wpc)
    /\ ipc' = "waitpid2"
    /\ UNCHANGED <<wpc, rpc, wi, ri, slot, rid, wout, rout, linked, mapped,
                   status, polled, flagstores, err>>

\* the second wait naming pid1 again: it returns without the Reader
WaitPid2Skipped ==
    /\ ipc = "waitpid2"
    /\ ChildExited(wpc)
    /\ ipc' = "cleanup"
    /\ UNCHANGED <<wpc, rpc, wi, ri, slot, rid, wout, rout, linked, mapped,
                   status, polled, flagstores, err>>

WaitPid2 ==
    /\ ipc = "waitpid2"
    /\ ChildExited(rpc)
    /\ ipc' = "cleanup"
    /\ UNCHANGED <<wpc, rpc, wi, ri, slot, rid, wout, rout, linked, mapped,
                   status, polled, flagstores, err>>

\* munmap, close, shm_unlink
Cleanup ==
    /\ ipc = "cleanup"
    /\ mapped' = mapped \ {"I"}
    /\ linked' = FALSE
    /\ ipc' = "return"
    /\ UNCHANGED <<wpc, rpc, wi, ri, slot, rid, wout, rout, status, polled,
                   flagstores, err>>

Return ==
    /\ ipc = "return"
    /\ ipc' = "exited"
    /\ status' = 0
    /\ UNCHANGED <<wpc, rpc, wi, ri, slot, rid, wout, rout, linked, mapped,
                   polled, flagstores, err>>

Initiator ==
    \/ ShmOpenOk \/ ShmOpenFail
    \/ FtruncateOk \/ FtruncateFail
    \/ MmapOk \/ MmapFail
    \/ InitMessageId \/ InitReady \/ Memset
    \/ Fork1Ok \/ Fork1Fail
    \/ Fork2Ok \/ Fork2Fail
    \/ WaitPid1 \/ WaitPid2
    \/ Cleanup \/ Return

-----------------------------------------------------------------------------
(* Writer: child 1 *)

\* printf "Started as WRITER", then the for-loop's int i = 1
WriterStart ==
    /\ wpc = "w_start"
    /\ wi' = 1
    /\ wpc' = "w_loop"
    /\ UNCHANGED <<ipc, rpc, ri, slot, rid, wout, rout, linked, mapped,
                   status, polled, flagstores, err>>

\* i <= 5 ?  The body starts directly with the store: nothing reads ready
WriterLoop ==
    /\ wpc = "w_loop"
    /\ wpc' = IF LoopCond(wi) THEN "w_store_id" ELSE "w_finish"
    /\ UNCHANGED <<ipc, rpc, wi, ri, slot, rid, wout, rout, linked, mapped,
                   status, polled, flagstores, err>>

WriterStoreId ==
    /\ wpc = "w_store_id"
    /\ message_id' = WriterId(wi)
    /\ wpc' = "w_fmt_literal"
    /\ UNCHANGED <<ipc, rpc, wi, ri, text_message, ready, rid, wout, rout,
                   linked, mapped, status, polled, flagstores, err>>

\* snprintf copies the literal part of the format into the buffer ...
WriterFormatLiteral ==
    /\ wpc = "w_fmt_literal"
    /\ text_message' = Overwrite(text_message,
                                 Truncate(FormatLiteral, MAX_MSG_LEN))
    /\ wpc' = "w_fmt_arg"
    /\ UNCHANGED <<ipc, rpc, wi, ri, message_id, ready, rid, wout, rout,
                   linked, mapped, status, polled, flagstores, err>>

\* ... then the converted %d and the terminating NUL
WriterFormatArg ==
    /\ wpc = "w_fmt_arg"
    /\ text_message' = WriterText(wi)
    /\ wpc' = "w_print"
    /\ UNCHANGED <<ipc, rpc, wi, ri, message_id, ready, rid, wout, rout,
                   linked, mapped, status, polled, flagstores, err>>

\* printf "WROTE message ID %d: '%s'" reads both fields back from the slot
WriterPrint ==
    /\ wpc = "w_print"
    /\ wout' = Append(wout, <<message_id, text_message>>)
    /\ wpc' = "w_sleep"
    /\ UNCHANGED <<ipc, rpc, wi, ri, slot, rid, rout, linked, mapped, status,
                   polled, flagstores, err>>

\* the iteration ending with a store of 1 to ready before the sleep
WriterSleepPublishes ==
    /\ wpc = "w_sleep"
    /\ ready' = 1
    /\ flagstores' = [flagstores EXCEPT !["W"] = @ + 1]
    /\ wi' = wi + 1
    /\ wpc' = "w_loop"
    /\ UNCHANGED <<ipc, rpc, ri, message_id, text_message, rid, wout, rout,
                   linked, mapped, status, polled, err>>

\* usleep(100000), then i++.  No store to ready precedes it
WriterSleep ==
    /\ wpc = "w_sleep"
    /\ wi' = wi + 1
    /\ wpc' = "w_loop"
    /\ UNCHANGED <<ipc, rpc, ri, slot, rid, wout, rout, linked, mapped,
                   status, polled, flagstores, err>>

\* an exit path that clears message_id before unmapping
WriterExitClearsId ==
    /\ wpc = "w_finish"
    /\ message_id' = 0
    /\ mapped' = mapped \ {"W"}
    /\ wpc' = "exited"
    /\ UNCHANGED <<ipc, rpc, wi, ri, text_message, ready, rid, wout, rout,
                   linked, status, polled, flagstores, err>>

\* printf "Finished writing", munmap, close, exit(0)
WriterExit ==
    /\ wpc = "w_finish"
    /\ mapped' = mapped \ {"W"}
    /\ wpc' = "exited"
    /\ UNCHANGED <<ipc, rpc, wi, ri, slot, rid, wout, rout, linked, status,
                   polled, flagstores, err>>

Writer ==
    \/ WriterStart \/ WriterLoop \/ WriterStoreId \/ WriterFormatLiteral
    \/ WriterFormatArg \/ WriterPrint \/ WriterSleep \/ WriterExit

-----------------------------------------------------------------------------
(* Reader: child 2 *)

ReaderStart ==
    /\ rpc = "r_start"
    /\ ri' = 1
    /\ rpc' = "r_loop"
    /\ UNCHANGED <<ipc, wpc, wi, slot, rid, wout, rout, linked, mapped,
                   status, polled, flagstores, err>>

\* the loop body entered only once ready is 1: a busy-wait on the flag
ReaderLoopWaits ==
    /\ rpc = "r_loop"
    /\ LoopCond(ri) => ready = 1
    /\ rpc' = IF LoopCond(ri) THEN "r_read_id" ELSE "r_finish"
    /\ polled' = IF LoopCond(ri) THEN [polled EXCEPT !["R"] = ri] ELSE polled
    /\ UNCHANGED <<ipc, wpc, wi, ri, slot, rid, wout, rout, linked, mapped,
                   status, flagstores, err>>

\* i <= 5 ?  The body starts directly with the printf: nothing reads ready
ReaderLoop ==
    /\ rpc = "r_loop"
    /\ rpc' = IF LoopCond(ri) THEN "r_read_id" ELSE "r_finish"
    /\ UNCHANGED <<ipc, wpc, wi, ri, slot, rid, wout, rout, linked, mapped,
                   status, polled, flagstores, err>>

\* the printf argument shared_mem->message_id is loaded before the call
ReaderReadId ==
    /\ rpc = "r_read_id"
    /\ rid' = message_id
    /\ rpc' = "r_read_text"
    /\ UNCHANGED <<ipc, wpc, wi, ri, slot, wout, rout, linked, mapped,
                   status, polled, flagstores, err>>

\* printf formats %s from the buffer and emits the line
ReaderPrint ==
    /\ rpc = "r_read_text"
    /\ rout' = Append(rout, <<rid, text_message>>)
    /\ rpc' = "r_sleep"
    /\ UNCHANGED <<ipc, wpc, wi, ri, slot, rid, wout, linked, mapped, status,
                   polled, flagstores, err>>

\* usleep(100000), then i++.  No store to ready precedes it
ReaderSleep ==
    /\ rpc = "r_sleep"
    /\ ri' = ri + 1
    /\ rpc' = "r_loop"
    /\ UNCHANGED <<ipc, wpc, wi, slot, rid, wout, rout, linked, mapped,
                   status, polled, flagstores, err>>

\* printf "Finished reading", munmap, close, exit(0)
ReaderExit ==
    /\ rpc = "r_finish"
    /\ mapped' = mapped \ {"R"}
    /\ rpc' = "exited"
    /\ UNCHANGED <<ipc, wpc, wi, ri, slot, rid, wout, rout, linked, status,
                   polled, flagstores, err>>

Reader ==
    \/ ReaderStart \/ ReaderLoop \/ ReaderReadId \/ ReaderPrint
    \/ ReaderSleep \/ ReaderExit

-----------------------------------------------------------------------------
Next == Initiator \/ Writer \/ Reader

Spec == Init /\ [][Next]_vars

\* Each process is scheduled by the kernel: a process that can take a step
\* eventually takes one.
FairSpec ==
    /\ Spec
    /\ WF_vars(Initiator)
    /\ WF_vars(Writer)
    /\ WF_vars(Reader)

-----------------------------------------------------------------------------
TypeOK ==
    /\ wi \in 0..(NumIters + 1)
    /\ ri \in 0..(NumIters + 1)
    /\ Len(wout) <= NumIters
    /\ Len(rout) <= NumIters
    /\ mapped \subseteq {"I", "W", "R"}
    /\ status \in {-1, 0, 1}

-----------------------------------------------------------------------------
(* Derived notions used by the properties *)

WriterStarted == wpc # "none"
ReaderStarted == rpc # "none"

\* C5: Completion.  Once both the Writer and the Reader have been started,
\* under fair scheduling the run reaches a state where both have exited
\* after exactly 5 iterations each and the Initiator has passed both waits,
\* cleaned up and exited with status 0.
C5_Completion ==
    (WriterStarted /\ ReaderStarted)
        ~> ( /\ ChildExited(wpc) /\ Len(wout) = NumIters
             /\ ChildExited(rpc) /\ Len(rout) = NumIters
             /\ ipc = "exited" /\ status = 0 /\ ~linked )

C5_Witness ==
    /\ ChildExited(wpc) /\ Len(wout) = NumIters
    /\ ChildExited(rpc) /\ Len(rout) = NumIters
    /\ ipc = "exited" /\ status = 0

\* the Writer's next step is a store to message_id or text_message
WriterAtStore == wpc \in {"w_store_id", "w_fmt_literal", "w_fmt_arg"}

\* the Reader's next step is a load of message_id or text_message
ReaderAtLoad == rpc \in {"r_read_id", "r_read_text"}

\* the Writer has stored message_id for this iteration and has not yet
\* reached the end of the iteration's body
WriterInWriteSection == wpc \in {"w_fmt_literal", "w_fmt_arg", "w_print"}

\* the Reader has loaded message_id and has not yet read the text
ReaderInReadSection == rpc = "r_read_text"

\* number of messages whose first store (message_id) has happened
WritesBegun ==
    CASE wpc \in {"none", "w_start"} -> 0
      [] wpc \in {"w_fmt_literal", "w_fmt_arg", "w_print", "w_sleep"} -> wi
      [] OTHER -> wi - 1

\* number of messages whose message_id and text are both stored
WritesDone ==
    CASE wpc \in {"none", "w_start"} -> 0
      [] wpc \in {"w_print", "w_sleep"} -> wi
      [] OTHER -> wi - 1

\* number of messages the Reader has begun to read
ReadsBegun ==
    CASE rpc \in {"none", "r_start"} -> 0
      [] rpc \in {"r_read_text", "r_sleep"} -> ri
      [] OTHER -> ri - 1

\* number of messages the Reader has read completely
ReadsDone == Len(rout)

\* the Reader has not taken a single step
ReaderNeverRan == rpc \in {"none", "r_start"}

\* values the protocol may leave in the slot once it is initialised
WriterIds   == {WriterId(k) : k \in 1..NumIters}
WriterTexts == {WriterText(k) : k \in 1..NumIters}
              \cup {Truncate(FormatLiteral, MAX_MSG_LEN)}

-----------------------------------------------------------------------------
\* C1: Strict alternation.  The Reader begins reading message k only after
\* the Writer has completely stored message k, and the Writer makes its
\* first store of message k+1 only after the Reader has finished reading
\* message k.
C1_StrictAlternation ==
    /\ ReadsBegun <= WritesDone
    /\ WritesBegun <= ReadsDone + 1

\* C2: Monotonic sequence.  The k-th message_id the Reader prints is 100+k:
\* 101, 102, 103, 104, 105 in that order, never 0, no repeat, no gap.
C2_MonotonicSequence ==
    \A k \in 1..Len(rout) : rout[k][1] = IdBase + k

\* C3: Payload integrity.  The pair the Reader prints in its k-th iteration
\* is the pair the Writer stored in its k-th iteration; in particular it is
\* a pair some single Writer iteration stored, never a torn one.
C3_PayloadIntegrity ==
    \A k \in 1..Len(rout) :
        /\ \E j \in 1..NumIters : rout[k] = <<WriterId(j), WriterText(j)>>
        /\ rout[k] = <<WriterId(k), WriterText(k)>>

\* C4: Mutual exclusion.  The Writer is never inside its write section
\* while the Reader is inside its read section.
C4_MutualExclusion == ~(WriterInWriteSection /\ ReaderInReadSection)

\* C6: Reader never starts.  As long as the Reader has taken no step, the
\* Writer has begun at most message 1, has set ready to 1 once message 1 is
\* written, and has not terminated.
C6_ReaderNeverStarts ==
    ReaderNeverRan =>
        /\ WritesBegun <= 1
        /\ (wpc = "w_sleep" => ready = 1)
        /\ ~ChildExited(wpc)

\* C7: Writer access discipline.  Once the roles run, message_id and
\* text_message change only in Writer steps, and every Writer store happens
\* with ready = 0, the Writer having loaded ready and found 0 in that
\* iteration.
C7_WriterDiscipline ==
    [][ /\ (WriterStarted /\ <<message_id, text_message>>' #
                             <<message_id, text_message>>)
              => (wpc' # wpc /\ rpc' = rpc /\ ipc' = ipc)
        /\ (WriterAtStore /\ wpc' # wpc)
              => (ready = 0 /\ polled["W"] = wi) ]_vars

\* C8: Reader access discipline.  Every load of message_id or text_message
\* is a Reader step taken with ready = 1, the Reader having loaded ready and
\* found 1 in that iteration; the Writer never reads the fields back.
C8_ReaderDiscipline ==
    [][ /\ (ReaderAtLoad /\ rpc' # rpc)
              => (ready = 1 /\ polled["R"] = ri)
        /\ ~(wpc = "w_print" /\ wpc' # wpc) ]_vars

\* C9: Flag transition ownership.  Once the roles run, ready holds 0 or 1;
\* it changes only 0 -> 1 in a Writer step or 1 -> 0 in a Reader step; the
\* step that ends the Writer's produce part of an iteration sets it 0 -> 1
\* and the step that ends the Reader's consume part sets it 1 -> 0.
C9_FlagTransitions ==
    [][ /\ WriterStarted => ready \in {0, 1}
        /\ (WriterStarted /\ ready' # ready)
              => \/ (ready = 0 /\ ready' = 1 /\ wpc' # wpc /\ rpc' = rpc)
                 \/ (ready = 1 /\ ready' = 0 /\ rpc' # rpc /\ wpc' = wpc)
        /\ (wpc # "w_sleep" /\ wpc' = "w_sleep")
              => (ready = 0 /\ ready' = 1)
        /\ (rpc # "r_sleep" /\ rpc' = "r_sleep")
              => (ready = 1 /\ ready' = 0) ]_vars

\* C10: Initialization before start.  While a role is about to take its
\* first step and nothing has been written yet, the slot is all zero; and a
\* started role never finds or reports a value left over from before the
\* Initiator's initialization.
C10_InitBeforeStart ==
    /\ (wpc = "w_start" \/ (rpc = "r_start" /\ WritesBegun = 0))
          => slot = <<0, ZeroText, 0>>
    /\ (WriterStarted \/ ReaderStarted)
          => /\ message_id \in {0} \cup WriterIds
             /\ text_message \in {ZeroText} \cup WriterTexts
             /\ ready \in {0, 1}
    /\ \A k \in 1..Len(rout) :
          /\ rout[k][1] \in {0} \cup WriterIds
          /\ rout[k][2] \in {ZeroText} \cup WriterTexts

C10_Witness ==
    /\ wpc = "w_start"
    /\ rpc = "r_start"
    /\ slot = <<0, ZeroText, 0>>

-----------------------------------------------------------------------------
\* a role that has been forked and has not exited
WriterAlive == wpc \notin {"none", "exited"}
ReaderAlive == rpc \notin {"none", "exited"}

\* the Initiator has executed its munmap / close / shm_unlink
CleanupDone == ipc = "return" \/ (ipc = "exited" /\ err = "")

\* one of the three setup calls failed
SetupFailed == err \in {"shm_open", "ftruncate", "mmap"}

\* C11: Teardown after join.  While a role is alive the object is linked
\* and the Initiator still holds its mapping (so no role unlinks it either),
\* and once a role was started the region is unmapped or unlinked by the
\* Initiator only when both roles have exited with all 5 iterations done.
C11_TeardownAfterJoin ==
    /\ (WriterAlive \/ ReaderAlive) => (linked /\ "I" \in mapped)
    /\ (WriterStarted /\ (~linked \/ "I" \notin mapped \/ CleanupDone))
          => /\ wpc = "exited" /\ Len(wout) = NumIters
             /\ rpc = "exited" /\ Len(rout) = NumIters

C11_Witness ==
    /\ ipc = "return"
    /\ ~linked
    /\ "I" \notin mapped
    /\ wpc = "exited"
    /\ rpc = "exited"

\* C12: Setup failure.  When shm_open, ftruncate or mmap has failed the
\* Initiator has exited with status 1 and no role was started or has done
\* anything; an Initiator that exits with no failure exits with status 0.
C12_SetupFailure ==
    /\ SetupFailed
          => /\ ipc = "exited" /\ status = 1
             /\ wpc = "none" /\ rpc = "none"
             /\ wi = 0 /\ ri = 0 /\ wout = <<>> /\ rout = <<>>
    /\ (err # "") => status # 0
    /\ (ipc = "exited" /\ err = "") => status = 0

C12_Witness ==
    /\ err = "mmap"
    /\ ipc = "exited"
    /\ status = 1
    /\ wpc = "none"

\* C13: Spawn failure.  When a fork has failed the Initiator has exited with
\* status 1 with the region still mapped and linked and no Reader started;
\* if it was the second fork, the Writer is not waited for: it can be at any
\* point of its run and, unless it has exited, can still take its next step;
\* if it was the first fork, no role exists.
C13_SpawnFailure ==
    (err = "fork")
        => /\ ipc = "exited" /\ status = 1
           /\ linked /\ "I" \in mapped
           /\ rpc = "none" /\ rout = <<>>
           /\ WriterAlive => ENABLED Writer
           /\ ~WriterStarted => (wi = 0 /\ wout = <<>>)

C13_Witness ==
    /\ err = "fork"
    /\ ipc = "exited"
    /\ status = 1
    /\ wpc = "w_start"
    /\ linked

-----------------------------------------------------------------------------
\* C14: Publish order.  Whenever ready is 1 the slot holds the complete
\* message of the Writer's current iteration, and a Writer that has reached
\* the pacing sleep of iteration i has made its i-th store of 1 to ready,
\* after the stores to message_id and text_message.
C14_PublishOrder ==
    /\ (WriterStarted /\ ready = 1)
          => (message_id = IdBase + wi /\ text_message = WriterText(wi))
    /\ (wpc = "w_sleep") => flagstores["W"] = wi

\* C15: Handoff cycles.  The roles' stores to ready alternate, Writer first;
\* when both roles have exited each has made exactly 5 of them (5 changes
\* 0 -> 1 and 5 changes 1 -> 0) and ready is 0.
C15_HandoffCycles ==
    /\ flagstores["R"] <= flagstores["W"]
    /\ flagstores["W"] <= flagstores["R"] + 1
    /\ (wpc = "exited" /\ rpc = "exited")
          => /\ flagstores["W"] = NumIters
             /\ flagstores["R"] = NumIters
             /\ ready = 0

\* C16: Termination frame.  The step by which the Writer terminates after
\* its 5th iteration (munmap, close, exit) leaves ready, message_id and
\* text_message unchanged, and so does the Reader's.
C16_TerminationFrame ==
    [][ /\ (wpc = "w_finish" /\ wpc' = "exited")
              => (wi = NumIters + 1 /\ slot' = slot)
        /\ (rpc = "r_finish" /\ rpc' = "exited")
              => (ri = NumIters + 1 /\ slot' = slot) ]_vars

C16_Witness ==
    /\ wpc = "exited"
    /\ rpc = "exited"
    /\ slot = <<IdBase + NumIters, WriterText(NumIters), 0>>

\* C17: Join order independence.  Whenever both roles have exited, in
\* either order, the Initiator goes on to clean up and exit with status 0;
\* it never hangs in a wait whose child has exited and never reaches cleanup
\* past a role that has not exited.
C17_JoinOrder ==
    /\ (wpc = "exited" /\ rpc = "exited")
          ~> (ipc = "exited" /\ status = 0 /\ ~linked)
    /\ [](ipc \in {"cleanup", "return"}
            => (wpc = "exited" /\ rpc = "exited"))

\* the Reader has exited while the Initiator is still in its first wait,
\* for a Writer that has not finished
C17_Witness ==
    /\ rpc = "exited"
    /\ wpc \notin {"w_finish", "exited"}
    /\ ipc = "waitpid1"

\* the Initiator has stored 0 to ready (line 86)
ReadyInitialised ==
    /\ ipc \notin {"shm_open", "ftruncate", "mmap", "init_id", "init_ready"}
    /\ ~SetupFailed

IdInitialised ==
    /\ ipc \notin {"shm_open", "ftruncate", "mmap", "init_id"}
    /\ ~SetupFailed

\* C20 as stated: message_id is in {0, 101, ..., 105} in every state, 0
\* before the Writer's first store.
C20_AsStated ==
    /\ message_id \in {0} \cup {IdBase + k : k \in 1..NumIters}
    /\ WritesBegun = 0 => message_id = 0

\* C20, amended: from the Initiator's store at line 85 on, message_id is 0
\* until the Writer's first store and 100 + i after its i-th store (so it is
\* in {0, 101, ..., 105}), it is 105 once the Writer has exited, and it
\* never decreases.
C20_MessageIdRange ==
    /\ [](IdInitialised
            => /\ message_id \in {0} \cup {IdBase + k : k \in 1..NumIters}
               /\ message_id = IF WritesBegun = 0 THEN 0
                               ELSE IdBase + WritesBegun
               /\ (wpc = "exited" => message_id = IdBase + NumIters))
    /\ [][IdInitialised => message_id' >= message_id]_vars

C20_Witness ==
    /\ wpc = "exited"
    /\ message_id = IdBase + NumIters

====
